---- MODULE Spec2Model ----
(***************************************************************************)
(* Keystroke-dynamics authentication: model of the scoring engine          *)
(* (ml/knn_classifier.py, ml/enhanced_model_trainer.py), of the per-user   *)
(* model store (ml/model_manager.py), of the authenticator facade          *)
(* (auth/keystroke_auth.py) and of the recording sessions driven by the    *)
(* training window (gui/enhanced_training_window.py).                      *)
(* SpecScoring scores feature vectors with a loaded model, SpecSweep runs   *)
(* the FAR/FRR threshold sweeps (system_evaluator.py,                      *)
(* gui/controlled_testing_window.py, gui/diploma_stats_window.py), and     *)
(* SpecTrainer follows the data partitions of the three trainers.          *)
(*                                                                         *)
(* Scores are fixed-point integers: ONE stands for 1.0.  ONE is chosen so  *)
(* that every product and quotient the code forms on the modelled input    *)
(* grids is an exact integer.                                              *)
(***************************************************************************)
EXTENDS Integers, Sequences, FiniteSets, TLC

(***************************************************************************)
(* Program constants                                                       *)
(***************************************************************************)
MIN_TRAINING_SAMPLES == 50
THRESHOLD_ACCURACY == 75
MIN_KNN_POSITIVES == 5
MIN_DATASET_SIZE == 20
MIN_AUTH_ATTEMPTS == 5
KNN_NEIGHBORS == 3
MAX_NEIGHBORS == 5
TARGET_SAMPLES == 10
MIN_NEGATIVES == 10

(***************************************************************************)
(* Bounds of the model                                                     *)
(***************************************************************************)
MaxTrainings == 2
MaxAttempts == 2
MaxSessions == 3
MaxEvents == 4
MaxScored == 3
MaxDataset == 8
MaxNeighbors == 2
MaxTied == 2
MaxPositives == 2
MaxSynthesized == 1
MaxOpenSessions == 2
MaxExtra == 1
MaxTrainPositives == 30
MaxSurplus == 3

(***************************************************************************)
(* Fixed-point arithmetic                                                  *)
(***************************************************************************)
ONE == 100 * 60000
Pct(p) == p * (ONE \div 100)

Min2(a, b) == IF a <= b THEN a ELSE b
Max2(a, b) == IF a >= b THEN a ELSE b
Abs(a) == IF a >= 0 THEN a ELSE 0 - a

\* np.clip(x, lo, hi)
Clip(x, lo, hi) == Max2(lo, Min2(x, hi))

RECURSIVE SumSeq(_)
SumSeq(s) == IF s = << >> THEN 0 ELSE Head(s) + SumSeq(Tail(s))

(***************************************************************************)
(* Feature vectors: 6-tuples of non-negative integers.  The statistics of  *)
(* the genuine training data (np.mean / np.std over training_data) are     *)
(* TrainMean and TrainStd in every dimension.  The z-score is invariant    *)
(* under the per-dimension affine normalisation applied to both the        *)
(* training data and the scored vector, so it is computed on these values. *)
(***************************************************************************)
TrainMean == 100
TrainStd == 10

Dims == 1..6
EmptyFeatures == [i \in Dims |-> 0]
Shifted(k) == [i \in Dims |-> TrainMean + k * TrainStd]
FeatureInputs == {EmptyFeatures, Shifted(0), Shifted(5)}

\* predict_proba of the genuine class, in percent
RawProbs == {0, 40, 60, 100}
\* min distance / mean intra-class distance, in halves
NormMins == {0, 8}
\* accuracy reported by the fit, in percent
Accuracies == {60, 100}
\* number of stored training samples when the program starts
InitSampleCounts == {0, 10, MIN_TRAINING_SAMPLES - 1, MIN_TRAINING_SAMPLES}

(***************************************************************************)
(* KNNAuthenticator.authenticate: the three sub-scores and the fusion      *)
(***************************************************************************)
\* knn_probability: clip to [0.1, 0.9], then pull 20% toward 0.5
knn_probability(raw) ==
    LET clipped == Clip(Pct(raw), Pct(10), Pct(90))
    IN  Pct(50) + ((clipped - Pct(50)) * 8) \div 10

\* 1 / (1 + exp(norm_min - 1.5)) on the grid of halves, in 1/10000
Sigmoid(h) ==
    CASE h = 0 -> 8176
      [] h = 1 -> 7311
      [] h = 2 -> 6225
      [] h = 3 -> 5000
      [] h = 4 -> 3775
      [] h = 5 -> 2689
      [] h = 6 -> 1824
      [] h = 7 -> 1192
      [] h = 8 -> 759
      [] OTHER -> 474

distance_score(norm) == Clip(Sigmoid(norm) * (ONE \div 10000), Pct(10), Pct(90))

\* |x - mean| / std in hundredths
ZScore(x) == (Abs(x - TrainMean) * 100) \div TrainStd

\* the piecewise penalty without the final min(penalty, 0.3)
Penalty_NoCap(z) ==
    IF z <= 100 THEN 0
    ELSE IF z <= 200 THEN 5 * (z - 100)
    ELSE IF z <= 300 THEN 500 + 10 * (z - 200)
    ELSE 1500 + 15 * Min2(z - 300, 200)

\* the piecewise penalty of one feature, in 1/10000
Penalty(z) ==
    LET p == IF z <= 100 THEN 0
             ELSE IF z <= 200 THEN 5 * (z - 100)
             ELSE IF z <= 300 THEN 500 + 10 * (z - 200)
             ELSE 1500 + 15 * Min2(z - 300, 200)
    IN  Min2(p, 3000)

\* max(0.2, 1.0 - mean(penalties))
feature_score(f) ==
    LET total == SumSeq([i \in Dims |-> Penalty(ZScore(f[i]))])
    IN  Max2(Pct(20), ONE - (total * (ONE \div 10000)) \div 6)

\* weight tiers whose middle tier does not sum to 1
Weights_Unbalanced(n) ==
    IF n >= 30 THEN [knn |-> 40, distance |-> 35, features |-> 25]
    ELSE IF n >= 15 THEN [knn |-> 35, distance |-> 40, features |-> 30]
    ELSE [knn |-> 30, distance |-> 50, features |-> 20]

\* the weight tiers keyed on len(training_data), in percent
Weights(n) ==
    IF n >= 30 THEN [knn |-> 40, distance |-> 35, features |-> 25]
    ELSE IF n >= 15 THEN [knn |-> 35, distance |-> 40, features |-> 25]
    ELSE [knn |-> 30, distance |-> 50, features |-> 20]

WeightedSum(w, k, d, f) == (w.knn * k + w.distance * d + w.features * f) \div 100

NoWeights == [knn |-> 0, distance |-> 0, features |-> 0]

\* the result of a call that returns (False, 0.0, {})
Rejected0(kind, f) ==
    [kind |-> kind, features |-> f, accepted |-> FALSE, confidence |-> 0,
     knn |-> 0, distance |-> 0, feature |-> 0, weights |-> NoWeights,
     threshold |-> Pct(THRESHOLD_ACCURACY), model |-> 0]

\* the call does not return: len(self.training_data) raises TypeError
TypeErrorRaised(f) == Rejected0("raised", f)

\* z_score and penalty of every feature, as returned in feature_details
feature_details(f) ==
    [i \in Dims |-> [z_score |-> ZScore(f[i]), penalty |-> Penalty(ZScore(f[i]))]]

KNNAuthenticate(model, f, raw, norm, threshold) ==
    IF ~model.is_trained THEN Rejected0("untrained", f)
    ELSE IF ~model.training_data THEN TypeErrorRaised(f)
    ELSE
    LET k == IF model.classes > 1 THEN knn_probability(raw) ELSE Pct(50)
        d == distance_score(norm)
        s == feature_score(f)
        w == Weights(model.n)
        final == Clip(WeightedSum(w, k, d, s), Pct(5), Pct(95))
    IN  [kind |-> "scored", features |-> f, accepted |-> final >= threshold,
         confidence |-> final, knn |-> k, distance |-> d, feature |-> s,
         weights |-> w, threshold |-> threshold, model |-> model.ver]

(***************************************************************************)
(* EnhancedModelTrainer.predict_with_confidence and the audit fields that  *)
(* ModelManager.authenticate_user_detailed adds for an enhanced model      *)
(***************************************************************************)
predict_with_confidence(raw) ==
    [prediction |-> raw > 50, confidence |-> Pct(raw)]

EnhancedAuthenticate(model, f, raw) ==
    LET r == predict_with_confidence(raw)
    IN  [kind |-> "scored", features |-> f, accepted |-> r.prediction,
         confidence |-> r.confidence, knn |-> r.confidence,
         distance |-> (r.confidence * 8) \div 10,
         feature |-> (r.confidence * 9) \div 10,
         weights |-> [knn |-> 60, distance |-> 30, features |-> 10],
         threshold |-> Pct(THRESHOLD_ACCURACY), model |-> model.ver]

(***************************************************************************)
(* The model store                                                         *)
(***************************************************************************)
\* training_data: the pickle holds the genuine samples (not None); classes:
\* the number of classes the fitted classifier knows
NoModel == [type |-> "none", ver |-> 0, n |-> 0, is_trained |-> FALSE,
            training_data |-> FALSE, classes |-> 0]
Corrupt == [type |-> "corrupt", ver |-> 0, n |-> 0, is_trained |-> FALSE,
            training_data |-> FALSE, classes |-> 0]
Model(type, ver, n) == [type |-> type, ver |-> ver, n |-> n, is_trained |-> TRUE,
                        training_data |-> TRUE, classes |-> 2]

\* load_trained_model / load_model: None if the file is missing or unreadable
Load(file) == IF file.type \in {"none", "corrupt"} THEN NoModel ELSE file

\* ModelManager._get_user_model
GetUserModel(cache, enh, bas) ==
    IF cache # NoModel THEN cache
    ELSE IF Load(enh) # NoModel THEN Load(enh)
    ELSE IF Load(bas) # NoModel THEN Load(bas)
    ELSE NoModel

\* ModelManager.authenticate_user_detailed
authenticate_user_detailed(model, f, raw, norm) ==
    IF model = NoModel THEN Rejected0("no_model", f)
    ELSE IF model.type = "enhanced" THEN EnhancedAuthenticate(model, f, raw)
    ELSE KNNAuthenticate(model, f, raw, norm, Pct(THRESHOLD_ACCURACY))

\* KeystrokeAuthenticator.authenticate, the returned decision
KeystrokeAuthenticate_NoGuard(trained, model, f, raw, norm) ==
    authenticate_user_detailed(model, f, raw, norm)

KeystrokeAuthenticate(trained, model, f, raw, norm) ==
    IF ~trained THEN Rejected0("not_trained", f)
    ELSE authenticate_user_detailed(model, f, raw, norm)

(***************************************************************************)
(* Training                                                                *)
(***************************************************************************)
\* ModelManager.train_user_model: the gate on the number of stored samples
InsufficientSamples_DatasetOnly(count) == 2 * count < MIN_DATASET_SIZE

InsufficientSamples(count) == count < MIN_TRAINING_SAMPLES

TrainResult(ok, reason, accuracy) == [ok |-> ok, reason |-> reason, accuracy |-> accuracy]

\* what the environment does to one training run: the fit or a file write
\* may raise
EnhancedEnvs == {"ok", "fit_error", "pickle_error", "report_error"}
BasicEnvs == {"ok", "fit_error", "pickle_error"}

\* EnhancedModelTrainer.train_with_validation with generated negatives (one
\* per positive): result, model file and report file after the run
train_with_validation(n, ver, env, acc, old_model, old_report) ==
    IF 2 * n < MIN_DATASET_SIZE
    THEN [result |-> TrainResult(FALSE, "InsufficientData", 0),
          model_file |-> old_model, report_file |-> old_report]
    ELSE IF env = "fit_error"
    THEN [result |-> TrainResult(FALSE, "TrainingError", 0),
          model_file |-> old_model, report_file |-> old_report]
    ELSE IF env = "pickle_error"
    THEN [result |-> TrainResult(FALSE, "TrainingError", 0),
          model_file |-> Corrupt, report_file |-> old_report]
    ELSE IF env = "report_error"
    THEN [result |-> TrainResult(FALSE, "TrainingError", 0),
          model_file |-> Model("enhanced", ver, n), report_file |-> 0]
    ELSE [result |-> TrainResult(TRUE, "ok", acc),
          model_file |-> Model("enhanced", ver, n), report_file |-> ver]

\* ModelManager._train_basic_model: KNNAuthenticator.train, the accuracy
\* gate and save_model
train_basic_model(n, ver, env, acc, old_model) ==
    IF n < MIN_KNN_POSITIVES \/ env = "fit_error"
    THEN [result |-> TrainResult(FALSE, "TrainingError", 0), model_file |-> old_model]
    ELSE IF acc < THRESHOLD_ACCURACY
    THEN [result |-> TrainResult(FALSE, "LowAccuracy", acc), model_file |-> old_model]
    ELSE IF env = "pickle_error"
    THEN [result |-> TrainResult(FALSE, "TrainingError", 0), model_file |-> Corrupt]
    ELSE [result |-> TrainResult(TRUE, "ok", acc), model_file |-> Model("basic", ver, n)]

(***************************************************************************)
(* Recording sessions                                                      *)
(***************************************************************************)
\* KeystrokeData.calculate_features: a capture with fewer than two completed
\* press/release pairs yields the all-zero vector
Degenerate(events) == events \div 2 < 2

ClosedWindow ==
    [open |-> FALSE, focused |-> FALSE, session_id |-> 0, is_recording |-> FALSE,
     text |-> "empty"]

(***************************************************************************)
(* Models as KNNAuthenticator.load_model returns them.  A pickle written   *)
(* without the key 'training_data' loads with training_data = None; the    *)
(* classifier in a pickle may have been fitted on one class only.          *)
(***************************************************************************)
TrainingCounts == {5, 14, 15, 29, 30, 50}

LoadedModels ==
    {[Model("basic", 1, n) EXCEPT !.training_data = d, !.classes = c] :
        n \in TrainingCounts, d \in BOOLEAN, c \in {1, 2}}
    \cup {Model("enhanced", 1, MIN_TRAINING_SAMPLES)}

\* feature vectors given in distance from the training mean (TrainStd = 10)
Deviated(d) == [i \in Dims |-> TrainMean + d]
OneDeviated(d) == [i \in Dims |-> IF i = 1 THEN TrainMean + d ELSE TrainMean]

\* one vector whose features lie 0, 1, 1.5, 2.5, 3.5 and 7 sigma from the mean
Spread == <<100, 110, 85, 125, 135, 170>>

Deviations == {-50, -15, 0, 10, 15, 20, 25, 30, 35, 40, 50, 70}
ScoringInputs ==
    {Deviated(d) : d \in Deviations} \cup {OneDeviated(d) : d \in {25, 50}}
        \cup {Spread}

NoScore ==
    [result |-> Rejected0("none", EmptyFeatures),
     feature_details |-> feature_details(EmptyFeatures)]

(***************************************************************************)
(* The threshold sweeps: BiometricSystemEvaluator.analyze_system,          *)
(* ControlledTestingWindow.calculate_metrics and                           *)
(* DiplomaStatsWindow.load_security_metrics.  Scores and thresholds are in *)
(* percent; a rate of ONE is 100%.                                         *)
(***************************************************************************)
\* the final confidences an attempt can have
Scores == {20, 72, 75, 85}

\* a list of attempts is the sequence of their scores
NoAttempts == << >>

\* the comparison turned round: score <= t
CountAtLeast_AtMost(attempts, t) ==
    Cardinality({i \in DOMAIN attempts : attempts[i] <= t})

\* the comparison made strict: score > t
CountAtLeast_Strict(attempts, t) ==
    Cardinality({i \in DOMAIN attempts : attempts[i] > t})

\* sum(1 for score in attempts if score >= t)
CountAtLeast(attempts, t) ==
    Cardinality({i \in DOMAIN attempts : attempts[i] >= t})

Rate(count, total) == (count * ONE) \div total

\* the number typed into the evaluator's text field for a score, in
\* hundredths: "85" for 85% when typed as a percentage, "0.85" as a fraction
Typed(score, as_percent) == IF as_percent THEN score * 100 ELSE score

\* x/100 if x > 1 else x, on hundredths, giving percent
AsFraction(x) == IF x > 100 THEN x \div 100 ELSE x

\* the attempts as analyze_system reads them from a text field
Parsed(attempts, as_percent) ==
    [i \in DOMAIN attempts |-> AsFraction(Typed(attempts[i], as_percent))]

\* np.arange(0.1, 1.0, 0.05)
EvaluatorThresholds == [i \in 1..18 |-> 10 + 5 * (i - 1)]
\* np.arange(0.1, 0.95, 0.05)
TestingThresholds == [i \in 1..17 |-> 10 + 5 * (i - 1)]
\* [0.3, 0.4, 0.5, 0.6, 0.7, 0.8]
StatsThresholds == <<30, 40, 50, 60, 70, 80>>

\* the position of the evaluator's threshold slider: its default
SliderPositions == {THRESHOLD_ACCURACY}

\* max in the place of min: the first point with the largest key
MinBy_Max(points, key) ==
    points[CHOOSE i \in DOMAIN points :
              /\ \A j \in DOMAIN points : key[i] >= key[j]
              /\ \A j \in 1..(i - 1) : key[j] < key[i]]

\* min(points, key=...): the first point with the smallest key; key[i] is
\* the key of points[i]
MinBy(points, key) ==
    points[CHOOSE i \in DOMAIN points :
              /\ \A j \in DOMAIN points : key[i] <= key[j]
              /\ \A j \in 1..(i - 1) : key[j] > key[i]]

\* key=lambda x: x['eer']
EerOf(points) == [i \in DOMAIN points |-> points[i].eer]

\* key=lambda x: abs(x['threshold'] - operating)
DistanceTo(points, operating) ==
    [i \in DOMAIN points |-> Abs(points[i].threshold - operating)]

\* one pass of the loop of analyze_system
analyze_point(t, legit, all_impostors) ==
    LET tp == CountAtLeast(legit, t)
        fn == Len(legit) - tp
        fp == CountAtLeast(all_impostors, t)
        tn == Len(all_impostors) - fp
        far == IF Len(all_impostors) > 0 THEN Rate(fp, Len(all_impostors)) ELSE 0
        frr == IF Len(legit) > 0 THEN Rate(fn, Len(legit)) ELSE 0
    IN  [threshold |-> t, far |-> far, frr |-> frr, eer |-> (far + frr) \div 2,
         accuracy |-> Rate(tp + tn, Len(legit) + Len(all_impostors)),
         tp |-> tp, fn |-> fn, fp |-> fp, tn |-> tn]

\* one pass of the loop of calculate_metrics; every sample is scored by
\* authenticate and its confidence compared with the threshold
calculate_point(t, legit, imp) ==
    LET tp == CountAtLeast(legit, t)
        fn == Len(legit) - tp
        fp == CountAtLeast(imp, t)
        tn == Len(imp) - fp
        far == IF fp + tn > 0 THEN Rate(fp, fp + tn) ELSE 0
        frr == IF fn + tp > 0 THEN Rate(fn, fn + tp) ELSE 0
    IN  [threshold |-> t, far |-> far, frr |-> frr, eer |-> (far + frr) \div 2,
         accuracy |-> Rate(tp + tn, Len(legit) + Len(imp)),
         tp |-> tp, fn |-> fn, fp |-> fp, tn |-> tn]

\* load_security_metrics: attempts with final_confidence >= 0.7 count as
\* the owner's, all others as impostors'
HighConfidence(auth_rows) == SelectSeq(auth_rows, LAMBDA c : c >= 70)
LowerConfidence(auth_rows) == SelectSeq(auth_rows, LAMBDA c : c < 70)

\* one pass of the loop of load_security_metrics
security_point(t, legitimate_attempts, impostor_attempts) ==
    LET legit_passed == CountAtLeast(legitimate_attempts, t)
        legit_total == IF Len(legitimate_attempts) > 0
                       THEN Len(legitimate_attempts) ELSE 1
        impostor_passed == CountAtLeast(impostor_attempts, t)
        impostor_total == IF Len(impostor_attempts) > 0
                          THEN Len(impostor_attempts) ELSE 1
        frr == Rate(legit_total - legit_passed, legit_total)
        far == Rate(impostor_passed, impostor_total)
    IN  [threshold |-> t, far |-> far, frr |-> frr, eer |-> (far + frr) \div 2]

NoPoint == [threshold |-> 0, far |-> 0, frr |-> 0, eer |-> 0]

NoSweep ==
    [evaluator |-> "none", operating |-> 0, legit |-> NoAttempts,
     impostor |-> NoAttempts, points |-> << >>, optimal |-> NoPoint,
     current |-> NoPoint]

\* the results of one sweep: the points, the optimal and the current one
SweepResult(evaluator, operating, legit, imp, points) ==
    [evaluator |-> evaluator, operating |-> operating, legit |-> legit,
     impostor |-> imp, points |-> points,
     optimal |-> MinBy(points, EerOf(points)),
     current |-> MinBy(points, DistanceTo(points, operating))]

(***************************************************************************)
(* The data partitions of a trainer run.  A data set is the set of sample  *)
(* numbers 1..n; train_test_split picks the test partition.                *)
(***************************************************************************)
\* sklearn's train_test_split: n_test = ceil(test_size * n)
TestCount(n, test_pct) == (n * test_pct + 99) \div 100

TestPartitions(n, test_pct) ==
    {t \in SUBSET (1..n) : Cardinality(t) = TestCount(n, test_pct)}

NoRun == [trainer |-> "none", dataset |-> {}, search |-> {}, fit |-> {}, test |-> {}]

\* EnhancedModelTrainer.train_with_validation: perform_cross_validation and
\* hyperparameter_optimization get (X, y); detailed_evaluation splits after
EnhancedRun(n, test) ==
    [trainer |-> "enhanced", dataset |-> 1..n, search |-> 1..n,
     fit |-> (1..n) \ test, test |-> test]

\* ImprovedModelTrainer.train_user_model and SimpleKNNTrainer.train_user_model:
\* split first, _optimize_hyperparameters(X_train, y_train)
SplitFirstRun(trainer, n, test) ==
    [trainer |-> trainer, dataset |-> 1..n, search |-> (1..n) \ test,
     fit |-> (1..n) \ test, test |-> test]

(***************************************************************************)
(* Hyperparameter selection.  A grid gives the values of every parameter   *)
(* in the order of the source; n_neighbors holds the first MaxNeighbors    *)
(* values of the range.  GridSearchCV walks the grid with the parameter    *)
(* names sorted (algorithm, metric, n_neighbors, weights), the last name   *)
(* varying fastest, and best_index_ is the first candidate of rank 1.      *)
(***************************************************************************)
FirstNeighbors(lowest) == [i \in 1..MaxNeighbors |-> lowest + i - 1]

\* perform_cross_validation: k only, the other parameters fixed
CrossValidationGrid ==
    [algorithm |-> <<"ball_tree">>, metric |-> <<"euclidean">>,
     n_neighbors |-> FirstNeighbors(1), weights |-> <<"distance">>]

\* EnhancedModelTrainer.hyperparameter_optimization
EnhancedGrid ==
    [algorithm |-> <<"auto", "ball_tree", "kd_tree">>,
     metric |-> <<"euclidean", "manhattan", "minkowski">>,
     n_neighbors |-> FirstNeighbors(1), weights |-> <<"uniform", "distance">>]

\* ImprovedModelTrainer._optimize_hyperparameters
ImprovedGrid ==
    [algorithm |-> <<"auto", "ball_tree">>, metric |-> <<"euclidean", "manhattan">>,
     n_neighbors |-> FirstNeighbors(5), weights |-> <<"uniform">>]

\* SimpleKNNTrainer._optimize_hyperparameters: no algorithm in the grid
SimpleGrid ==
    [algorithm |-> <<"auto">>, metric |-> <<"euclidean", "manhattan">>,
     n_neighbors |-> FirstNeighbors(3), weights |-> <<"uniform", "distance">>]

GridSize(grid) ==
    Len(grid.algorithm) * Len(grid.metric) * Len(grid.n_neighbors) * Len(grid.weights)

\* the candidates in the order GridSearchCV evaluates them
ParameterGrid(grid) ==
    [c \in 1..GridSize(grid) |->
        LET w == Len(grid.weights)
            k == Len(grid.n_neighbors)
            m == Len(grid.metric)
            z == c - 1
        IN  [algorithm |-> grid.algorithm[(z \div (w * k * m)) + 1],
             metric |-> grid.metric[((z \div (w * k)) % m) + 1],
             n_neighbors |-> grid.n_neighbors[((z \div w) % k) + 1],
             weights |-> grid.weights[(z % w) + 1]]]

\* the mean cross-validated accuracies, in percent: the candidates of best
\* share the highest one
MeanAccuracies(size, best) == [c \in 1..size |-> IF c \in best THEN 90 ELSE 80]

\* max(keys, key=...) and argmin of rank_test_score: the first candidate
\* with the highest score
FirstBest(scores) ==
    CHOOSE c \in DOMAIN scores :
        /\ \A d \in DOMAIN scores : scores[c] >= scores[d]
        /\ \A d \in 1..(c - 1) : scores[d] < scores[c]

NoSearch == [searcher |-> "none", candidates |-> << >>, scores |-> << >>,
             best_params |-> [algorithm |-> "none", metric |-> "none",
                              n_neighbors |-> 0, weights |-> "none"]]

\* one search: the candidates, their scores and the selected parameters
SearchResult(searcher, grid, best) ==
    [searcher |-> searcher, candidates |-> ParameterGrid(grid),
     scores |-> MeanAccuracies(GridSize(grid), best),
     best_params |-> ParameterGrid(grid)[FirstBest(MeanAccuracies(GridSize(grid), best))]]

(***************************************************************************)
(* Persistence.  A KNNAuthenticator and an EnhancedModelTrainer as they    *)
(* are in memory after training, the dictionary pickled for each, and the  *)
(* object the class method builds from the file.                           *)
(***************************************************************************)
NoObject == [type |-> "none"]

\* KNNAuthenticator after train: n genuine samples in training_data
TrainedAuthenticator(n) ==
    [type |-> "basic", n_neighbors |-> Min2(KNN_NEIGHBORS, MAX_NEIGHBORS),
     model |-> [n_neighbors |-> Min2(KNN_NEIGHBORS, MAX_NEIGHBORS),
                weights |-> "distance", metric |-> "euclidean", fitted |-> 2 * n],
     normalization_stats |-> n, is_trained |-> TRUE, training_data |-> n,
     test_data |-> [X_positive |-> n, X_negative |-> n]]

\* KNNAuthenticator.save_model: the pickled dictionary
save_model(a) ==
    [type |-> "basic", model |-> a.model, n_neighbors |-> a.n_neighbors,
     normalization_stats |-> a.normalization_stats, is_trained |-> a.is_trained,
     training_data |-> a.training_data, test_data |-> a.test_data]

\* KNNAuthenticator.load_model: cls(n_neighbors=...) and the stored fields
load_model(model_data) ==
    [type |-> "basic", n_neighbors |-> Min2(model_data.n_neighbors, MAX_NEIGHBORS),
     model |-> model_data.model,
     normalization_stats |-> model_data.normalization_stats,
     is_trained |-> model_data.is_trained,
     training_data |-> model_data.training_data, test_data |-> model_data.test_data]

\* the training_summary of train_with_validation: n genuine samples and one
\* generated negative per genuine sample
TrainingSummary(n, params, acc) ==
    [dataset_size |-> 2 * n, n_positive |-> n, n_negative |-> n,
     best_params |-> params, test_accuracy |-> acc]

\* EnhancedModelTrainer after train_with_validation; c: the position in the
\* grid of the parameters the search selected
TrainedTrainer(n, c, acc) ==
    [type |-> "enhanced",
     best_model |-> [params |-> ParameterGrid(EnhancedGrid)[c],
                     fitted |-> 2 * n - TestCount(2 * n, 30)],
     scaler |-> 2 * n, best_params |-> ParameterGrid(EnhancedGrid)[c],
     validation_results |-> [final_evaluation |-> acc],
     training_history |-> <<TrainingSummary(n, ParameterGrid(EnhancedGrid)[c], acc)>>]

\* EnhancedModelTrainer._save_training_results: the pickled dictionary
save_training_results(t) ==
    [type |-> "enhanced", model |-> t.best_model, scaler |-> t.scaler,
     best_params |-> t.best_params, validation_results |-> t.validation_results,
     training_summary |-> t.training_history[Len(t.training_history)]]

\* EnhancedModelTrainer.load_trained_model: cls(user_id) and four fields
load_trained_model(model_data) ==
    [type |-> "enhanced", best_model |-> model_data.model,
     scaler |-> model_data.scaler, best_params |-> model_data.best_params,
     validation_results |-> model_data.validation_results,
     training_history |-> << >>]

(***************************************************************************)
(* Synthesis of negative vectors.  Feature values are integers; a dwell    *)
(* or speed component of a genuine vector is FeatureUnit or twice it, a    *)
(* flight component may be 0.  The random draws of the code are inputs:    *)
(* a uniform draw is one of the two ends of its interval (in percent), a   *)
(* normal draw a number of standard deviations, the same for every         *)
(* component of one vector.                                                *)
(***************************************************************************)
FeatureUnit == 12 * 100

\* avg_dwell, std_dwell, avg_flight, std_flight, speed, total_time
FlightVector(avg_flight, std_flight) ==
    <<FeatureUnit, FeatureUnit, avg_flight, std_flight, 2 * FeatureUnit, 2 * FeatureUnit>>

FlightValues == {0, FeatureUnit, 2 * FeatureUnit}

ValidVectors == {FlightVector(a, d) : a \in FlightValues, d \in FlightValues}

Scale(x, pct) == (x * pct) \div 100

\* np.mean(X_positive, axis=0)[i]
MeanOf(X, i) == SumSeq([j \in DOMAIN X |-> X[j][i]]) \div Len(X)

\* the square root, rounded down
ISqrt(v) == CHOOSE r \in 0..(2 * FeatureUnit) : r * r <= v /\ (r + 1) * (r + 1) > v

\* np.std(X_positive, axis=0)[i]
StdOf(X, i) ==
    ISqrt(SumSeq([j \in DOMAIN X |-> (X[j][i] - MeanOf(X, i)) * (X[j][i] - MeanOf(X, i))])
              \div Len(X))

\* std = np.maximum(std, mean * 0.1)
FlooredStd(X, i) == Max2(StdOf(X, i), Scale(MeanOf(X, i), 10))

\* the draws of a normal variable, in standard deviations
NormalDraws == {-4, 0, 4}

\* the two ends of np.random.uniform(lo, hi), in percent
Ends(lo, hi, high) == IF high THEN hi ELSE lo

\* the statistics a synthesizer computes first: mean, std and the floored
\* std of every feature, with the samples themselves
Moments(X) ==
    [samples |-> X,
     mean    |-> [i \in Dims |-> MeanOf(X, i)],
     raw_std |-> [i \in Dims |-> StdOf(X, i)],
     std     |-> [i \in Dims |-> FlooredStd(X, i)]]

\* _generate_balanced_negatives, strategy 1: 1-2 features at 70%-130% of
\* the mean, noise of 0.4 std, floor 10% of the mean
balanced_close(X, changed, high, z) ==
    [i \in Dims |->
        Max2((IF i \in changed THEN Scale(X.mean[i], Ends(70, 130, high))
                               ELSE X.mean[i])
                 + Scale(z * X.std[i], 40),
             Scale(X.mean[i], 10))]

\* the style factors of a fast and of a slow typist
FastStyle(high) ==
    <<Ends(60, 90, high), Ends(70, 120, high), Ends(50, 80, high),
      Ends(60, 130, high), Ends(110, 180, high), Ends(60, 90, high)>>

SlowStyle(high) ==
    <<Ends(110, 160, high), Ends(80, 150, high), Ends(120, 200, high),
      Ends(100, 180, high), Ends(50, 90, high), Ends(110, 170, high)>>

\* strategy 2: another style, noise of 0.3 std, floor 5% of the mean
balanced_style(X, fast, high, z) ==
    [i \in Dims |->
        Max2(Scale(X.mean[i], IF fast THEN FastStyle(high)[i] ELSE SlowStyle(high)[i])
                 + Scale(z * X.std[i], 30),
             Scale(X.mean[i], 5))]

\* strategy 3: 40%-250% of the mean, noise of 0.6 std, floor 2% of the mean
balanced_far(X, high, z) ==
    [i \in Dims |->
        Max2(Scale(X.mean[i], Ends(40, 250, high)) + Scale(z * X.std[i], 60),
             Scale(X.mean[i], 2))]

\* _generate_enhanced_negatives, strategy 1: outliers 2-4 std away, floor
\* 1% of the mean
enhanced_outlier(X, direction, high) ==
    [i \in Dims |->
        Max2(X.mean[i] + direction * Ends(2, 4, high) * X.std[i],
             Scale(X.mean[i], 1))]

\* the two factors of an inverted feature, in percent
InvertFactor(i, high) ==
    IF i \in {1, 3} THEN Ends(20, 400, high)
    ELSE IF i \in {2, 4} THEN Ends(10, 300, high)
    ELSE IF i = 5 THEN Ends(30, 300, high)
    ELSE Ends(40, 250, high)

\* strategy 2: opposite patterns; no noise and no floor
enhanced_opposite(X, inverted, high) ==
    [i \in Dims |->
        IF i \in inverted THEN Scale(X.mean[i], InvertFactor(i, high))
                           ELSE X.mean[i]]

\* strategy 3: noise around the mean, floor 5% of the mean
enhanced_noise(X, z) ==
    [i \in Dims |->
        Max2(X.mean[i] + z * X.std[i], Scale(X.mean[i], 5))]

\* strategy 4: a combination of training samples (here: one of them) with
\* noise of 0.8 std, floor 2% of the mean
enhanced_boundary(X, j, z) ==
    [i \in Dims |->
        Max2(X.samples[j][i] + Scale(z * X.std[i], 80), Scale(X.mean[i], 2))]

\* _generate_realistic_negatives: a training sample with 2-3 features moved
\* by 2-4 std, kept within 20%-500% of the mean
realistic_negative(X, j, changed, direction, high) ==
    [i \in Dims |->
        Min2(Max2(IF i \in changed /\ X.raw_std[i] > 0
                  THEN X.samples[j][i] + direction * Ends(2, 4, high) * X.raw_std[i]
                  ELSE X.samples[j][i],
                  Scale(X.mean[i], 20)),
             Scale(X.mean[i], 500))]

NoNegative ==
    [synthesizer |-> "none", strategy |-> "none", sample |-> EmptyFeatures, count |-> 0]

\* the count-th vector appended to the list of negatives
Negative(synthesizer, strategy, sample, count) ==
    [synthesizer |-> synthesizer, strategy |-> strategy, sample |-> sample,
     count |-> count]

(***************************************************************************)
(* The controlled-testing window (ControlledTestingWindow)                 *)
(***************************************************************************)
\* the object before __init__; skipped and session_error are not fields of
\* the object: a phase was skipped, a handler raised "session not found"
NoTesting ==
    [open |-> FALSE, focused |-> FALSE, session_id |-> 0, is_recording |-> FALSE,
     text |-> "empty", current_phase |-> "legitimate", samples_collected |-> 0,
     legitimate_samples |-> 0, impostor_samples |-> 0, skipped |-> FALSE,
     session_error |-> FALSE]

Phases == <<"legitimate", "impostor_slow", "impostor_fast", "completed">>

PhaseIndex(phase) == CHOOSE i \in DOMAIN Phases : Phases[i] = phase

\* next_phase: the phase that follows; completed stays completed
next_phase(phase) == Phases[Min2(PhaseIndex(phase) + 1, Len(Phases))]

\* the number of samples a phase collects
PhaseTarget(phase) ==
    IF phase = "legitimate" THEN TARGET_SAMPLES ELSE TARGET_SAMPLES \div 2

\* check_phase_completion: the phase ends with this many collected samples
phase_completed_Late(phase, collected) ==
    phase # "completed" /\ collected > PhaseTarget(phase)

phase_completed(phase, collected) ==
    phase # "completed" /\ collected >= PhaseTarget(phase)

\* show_results: "refused" without data of both classes, "failed" when the
\* analysis raises, "shown" when the results window replaces this one
show_results(legit, imp, analysis_ok) ==
    IF legit = 0 \/ imp = 0 THEN "refused"
    ELSE IF analysis_ok THEN "shown" ELSE "failed"

\* window.destroy: the entry and its recording are gone; the phase and the
\* collected samples are what the run ended with
Destroyed(w) ==
    [w EXCEPT !.open = FALSE, !.focused = FALSE, !.session_id = 0,
              !.is_recording = FALSE, !.text = "empty"]

\* the window after next_phase and update_interface
AfterNextPhase(w, analysis_ok) ==
    LET phase == next_phase(w.current_phase)
        moved == [w EXCEPT !.current_phase = phase,
                           !.samples_collected =
                               IF w.current_phase = "completed" THEN @ ELSE 0]
    IN  IF phase = "completed"
           /\ show_results(w.legitimate_samples, w.impostor_samples, analysis_ok) = "shown"
        THEN Destroyed(moved)
        ELSE moved

\* start_recording with the id start_keystroke_recording returned
start_recording(w, sid) ==
    IF w.is_recording THEN w
    ELSE [w EXCEPT !.session_id = sid, !.is_recording = TRUE]

stop_recording(w) == [w EXCEPT !.is_recording = FALSE]

\* _reset_input: the window after a wrong text
reset_input_KeepsRecording(w) ==
    IF w.is_recording
    THEN [w EXCEPT !.session_id = 0, !.text = "empty"]
    ELSE [w EXCEPT !.text = "empty"]

reset_input(w) ==
    IF w.is_recording
    THEN [stop_recording(w) EXCEPT !.session_id = 0, !.text = "empty"]
    ELSE [w EXCEPT !.text = "empty"]

(***************************************************************************)
(* KNNAuthenticator.train: the choice among the available negatives.       *)
(* Positions are counted from 1; d[i] is the distance of negative i to the *)
(* nearest positive, all distances different.                              *)
(***************************************************************************)
\* neg_count = max(n_samples // 2, 10)
NegCount(n) == Max2(n \div 2, MIN_NEGATIVES)

\* np.argsort(d): the indices of d in ascending order of distance
Argsort(d) ==
    [p \in 1..Len(d) |->
        CHOOSE i \in 1..Len(d) : Cardinality({j \in 1..Len(d) : d[j] < d[i]}) = p - 1]

\* s[lo:hi] of Python, lo and hi counted from 0
Slice(seq, lo, hi) == SubSeq(seq, lo + 1, Min2(hi, Len(seq)))

\* the elements of a sequence
Range(seq) == {seq[i] : i \in DOMAIN seq}

\* the indices 1..m outside a set, in ascending order (np.setdiff1d)
Setdiff(m, taken) ==
    LET rest == (1..m) \ taken
    IN  [p \in 1..Cardinality(rest) |->
            CHOOSE i \in rest : Cardinality({j \in rest : j < i}) = p - 1]

\* selected_indices for the distances d of the available negatives
SelectedIndices(n, d) ==
    LET neg_count == NegCount(n)
        far_count == neg_count \div 2
        medium_count == neg_count - far_count
        order == Argsort(d)
        far_indices == Slice(order, Len(d) - far_count, Len(d))
        remaining_indices == Setdiff(Len(d), Range(far_indices))
        remaining_distances == [p \in DOMAIN remaining_indices |-> d[remaining_indices[p]]]
        band == Slice(Argsort(remaining_distances),
                      Len(remaining_distances) \div 4,
                      Len(remaining_distances) \div 4 + medium_count)
        medium_indices == [p \in DOMAIN band |-> remaining_indices[band[p]]]
    IN  IF Len(d) > neg_count THEN far_indices \o medium_indices
        ELSE [i \in 1..Len(d) |-> i]

\* distances of m negatives: ascending, descending, or alternating
Distances(m, pattern) ==
    [i \in 1..m |->
        IF pattern = "ascending" THEN i
        ELSE IF pattern = "descending" THEN m + 1 - i
        ELSE IF i % 2 = 0 THEN i ELSE 2 * m + 1 - i]

Patterns == {"ascending", "descending", "alternating"}

NoSelection == [n |-> 0, distances |-> << >>, selected |-> << >>, done |-> FALSE]

(***************************************************************************)
(* State                                                                   *)
(***************************************************************************)
VARIABLES
    samples,          \* stored training samples with usable features
    zero_samples,     \* stored training samples whose features are all 0
    is_trained,       \* user.is_trained
    enhanced_file,    \* user_<id>_enhanced_knn.pkl
    basic_file,       \* user_<id>_knn.pkl
    report_file,      \* training_report_user_<id>.json (version, 0 = none)
    models_cache,     \* models_cache[user_id] of the authenticator's manager
    auth_attempts,    \* rows of the auth_attempts table
    analysis_file,    \* temp/last_auth_analysis.json was written
    trainings,        \* number of models produced so far
    auth,             \* result of the last authenticate call
    train,            \* result of the last train_user_model call
    step,             \* the operation that ran last
    current_session,  \* KeystrokeAuthenticator.current_session: id -> events
    next_sid,         \* the next fresh session id
    window,           \* the training window
    key_error,        \* a key handler raised "session not found"
    loaded,           \* a KNNAuthenticator as load_model returned it
    score,            \* what authenticate returned for it
    legitimate,       \* scored genuine attempts: score -> number of attempts
    impostors,        \* scored impostor attempts: score -> number of attempts
    sweep,            \* the result of the last threshold sweep
    run,              \* the data partitions of the last trainer run
    search,           \* the last hyperparameter search
    memory,           \* the model object in memory after training
    pickle_file,      \* the dictionary pickled for it
    restored,         \* the object loaded from the file
    positives,        \* X_positive: the genuine feature vectors, with their statistics
    negative,         \* the last synthesized negative vector
    testing,          \* the controlled-testing window
    selection         \* the negatives KNNAuthenticator.train keeps

vars == <<samples, zero_samples, is_trained, enhanced_file, basic_file,
          report_file, models_cache, auth_attempts, analysis_file, trainings,
          auth, train, step, current_session, next_sid, window, key_error,
          loaded, score, legitimate, impostors, sweep, run, search,
          memory, pickle_file, restored, positives, negative, testing,
          selection>>

storeVars == <<samples, zero_samples, is_trained, enhanced_file, basic_file,
               report_file, models_cache, auth_attempts, analysis_file,
               trainings, auth, train>>

sessionVars == <<current_session, next_sid, window, key_error>>

scoringVars == <<loaded, score>>
sweepVars == <<legitimate, impostors, sweep>>
trainerVars == <<run>>
searchVars == <<search>>
persistVars == <<memory, pickle_file, restored>>
synthVars == <<positives, negative>>
testingVars == <<testing>>
selectVars == <<selection>>

\* the variables of the specifications that follow the five above
auxVars == <<searchVars, persistVars, synthVars, testingVars, selectVars>>
\* all variables but those of one group of auxVars
coreVars == <<storeVars, sessionVars, scoringVars, sweepVars, trainerVars>>
exceptSearchVars == <<coreVars, persistVars, synthVars, testingVars, selectVars>>
exceptPersistVars == <<coreVars, searchVars, synthVars, testingVars, selectVars>>
exceptSynthVars == <<coreVars, searchVars, persistVars, testingVars, selectVars>>
exceptSelectVars == <<coreVars, searchVars, persistVars, synthVars, testingVars>>
\* all variables but step, the sessions and the testing window
exceptTestingVars == <<storeVars, next_sid, window, key_error, scoringVars, sweepVars,
                       trainerVars, searchVars, persistVars, synthVars, selectVars>>

NoSessions == [s \in {} |-> 0]

\* the model store and the sessions when the program starts
InitStore(counts) ==
    /\ samples \in counts
    /\ zero_samples = 0
    /\ is_trained = FALSE
    /\ enhanced_file = NoModel
    /\ basic_file = NoModel
    /\ report_file = 0
    /\ models_cache = NoModel
    /\ auth_attempts = 0
    /\ analysis_file = FALSE
    /\ trainings = 0
    /\ auth = Rejected0("none", EmptyFeatures)
    /\ train = TrainResult(FALSE, "none", 0)
    /\ step = "init"
    /\ current_session = NoSessions
    /\ next_sid = 1
    /\ window = ClosedWindow
    /\ key_error = FALSE

InitScoring == loaded = NoModel /\ score = NoScore
InitSweep == legitimate = NoAttempts /\ impostors = NoAttempts /\ sweep = NoSweep
InitTrainer == run = NoRun
InitSearch == search = NoSearch
InitPersist == memory = NoObject /\ pickle_file = NoObject /\ restored = NoObject
InitSynth == positives = Moments(<<EmptyFeatures>>) /\ negative = NoNegative
InitTesting == testing = NoTesting
InitSelect == selection = NoSelection
InitAux == InitSearch /\ InitPersist /\ InitSynth /\ InitTesting /\ InitSelect

Init ==
    /\ InitStore(InitSampleCounts)
    /\ InitScoring
    /\ InitSweep
    /\ InitTrainer
    /\ InitAux

(***************************************************************************)
(* ModelManager.train_user_model.  own_manager: the call goes through the  *)
(* authenticator's ModelManager (KeystrokeAuthenticator.train_user_model,  *)
(* basic training); otherwise a window trains with a ModelManager of its   *)
(* own, whose cache is dropped with it.                                    *)
(***************************************************************************)
TrainUserModel(own_manager, enhanced, env, acc) ==
    /\ trainings < MaxTrainings
    /\ own_manager => ~enhanced
    /\ env \in (IF enhanced THEN EnhancedEnvs ELSE BasicEnvs)
    /\ step' = "train"
    /\ LET count == samples + zero_samples
           ver == trainings + 1
       IN  IF InsufficientSamples(count)
           THEN /\ train' = TrainResult(FALSE, "InsufficientData", 0)
                /\ UNCHANGED <<is_trained, enhanced_file, basic_file, report_file,
                               models_cache, trainings>>
           ELSE IF enhanced
           THEN LET r == train_with_validation(count, ver, env, acc,
                                               enhanced_file, report_file)
                IN  /\ train' = r.result
                    /\ enhanced_file' = r.model_file
                    /\ report_file' = r.report_file
                    /\ is_trained' = (is_trained \/ r.result.ok)
                    /\ trainings' = IF r.model_file # enhanced_file
                                    THEN ver ELSE trainings
                    /\ UNCHANGED <<basic_file, models_cache>>
           ELSE LET r == train_basic_model(count, ver, env, acc, basic_file)
                IN  /\ train' = r.result
                    /\ basic_file' = r.model_file
                    /\ is_trained' = (is_trained \/ r.result.ok)
                    /\ models_cache' = IF own_manager /\ r.result.ok
                                       THEN r.model_file ELSE models_cache
                    /\ trainings' = IF r.model_file # basic_file
                                    THEN ver ELSE trainings
                    /\ UNCHANGED <<enhanced_file, report_file>>
    /\ UNCHANGED <<samples, zero_samples, auth_attempts, analysis_file, auth>>
    /\ UNCHANGED sessionVars
    /\ UNCHANGED <<scoringVars, sweepVars, trainerVars>>
    /\ UNCHANGED auxVars

(***************************************************************************)
(* KeystrokeAuthenticator.authenticate                                     *)
(***************************************************************************)
Authenticate(f, raw, norm) ==
    /\ step' = "auth"
    /\ LET model == GetUserModel(models_cache, enhanced_file, basic_file)
       IN  /\ auth' = KeystrokeAuthenticate(is_trained, model, f, raw, norm)
           /\ IF ~is_trained
              THEN UNCHANGED <<models_cache, auth_attempts, analysis_file>>
              ELSE /\ auth_attempts < MaxAttempts
                   /\ models_cache' = model
                   /\ analysis_file' = TRUE
                   /\ auth_attempts' = auth_attempts + 1
    /\ UNCHANGED <<samples, zero_samples, is_trained, enhanced_file, basic_file,
                   report_file, trainings, train>>
    /\ UNCHANGED sessionVars
    /\ UNCHANGED <<scoringVars, sweepVars, trainerVars>>
    /\ UNCHANGED auxVars

(***************************************************************************)
(* KeystrokeAuthenticator.reset_user_model; db_ok = FALSE: deleting the    *)
(* stored samples raises after the model was deleted                       *)
(***************************************************************************)
ResetUserModel(db_ok) ==
    /\ step' = "reset"
    /\ models_cache' = NoModel
    /\ enhanced_file' = NoModel
    /\ basic_file' = NoModel
    /\ IF db_ok
       THEN /\ samples' = 0
            /\ zero_samples' = 0
            /\ is_trained' = FALSE
       ELSE UNCHANGED <<samples, zero_samples, is_trained>>
    /\ UNCHANGED <<report_file, auth_attempts, analysis_file, trainings, auth, train>>
    /\ UNCHANGED sessionVars
    /\ UNCHANGED <<scoringVars, sweepVars, trainerVars>>
    /\ UNCHANGED auxVars

(***************************************************************************)
(* The program is started again: a new KeystrokeAuthenticator with an      *)
(* empty models_cache and no sessions                                      *)
(***************************************************************************)
Restart ==
    /\ step' = "restart"
    /\ models_cache' = NoModel
    /\ current_session' = NoSessions
    /\ window' = ClosedWindow
    /\ key_error' = FALSE
    /\ UNCHANGED <<samples, zero_samples, is_trained, enhanced_file, basic_file,
                   report_file, auth_attempts, analysis_file, trainings, auth,
                   train, next_sid>>
    /\ UNCHANGED <<scoringVars, sweepVars, trainerVars>>
    /\ UNCHANGED auxVars

(***************************************************************************)
(* ModelManager.compare_model_performance: two fixed configurations are    *)
(* cross-validated in memory, the third runs train_with_validation, which  *)
(* saves the model file and the report of the user                         *)
(***************************************************************************)
CompareModelPerformance(env, acc) ==
    /\ trainings < MaxTrainings
    /\ step' = "compare"
    /\ LET count == samples + zero_samples
           ver == trainings + 1
           r == train_with_validation(count, ver, env, acc, enhanced_file, report_file)
       IN  IF InsufficientSamples(count)
           THEN UNCHANGED <<enhanced_file, report_file, trainings>>
           ELSE /\ enhanced_file' = r.model_file
                /\ report_file' = r.report_file
                /\ trainings' = IF r.model_file # enhanced_file THEN ver ELSE trainings
    /\ UNCHANGED <<samples, zero_samples, is_trained, basic_file, models_cache,
                   auth_attempts, analysis_file, auth, train>>
    /\ UNCHANGED sessionVars
    /\ UNCHANGED <<scoringVars, sweepVars, trainerVars>>
    /\ UNCHANGED auxVars

Next ==
    \/ \E own \in BOOLEAN, enhanced \in BOOLEAN, env \in EnhancedEnvs, acc \in Accuracies :
          TrainUserModel(own, enhanced, env, acc)
    \/ \E f \in FeatureInputs, raw \in RawProbs, norm \in NormMins :
          Authenticate(f, raw, norm)
    \/ \E db_ok \in BOOLEAN : ResetUserModel(db_ok)
    \/ Restart
    \/ \E env \in EnhancedEnvs, acc \in Accuracies : CompareModelPerformance(env, acc)

Spec == Init /\ [][Next]_vars

(***************************************************************************)
(* The training window (EnhancedTrainingWindow) and the sessions it opens  *)
(***************************************************************************)
\* KeystrokeAuthenticator.record_key_event on an open session
RecordKeyEvent(sessions, sid) ==
    [sessions EXCEPT ![sid] = Min2(@ + 1, MaxEvents)]

\* del self.current_session[sid]
DeleteSession(sessions, sid) ==
    [s \in DOMAIN sessions \ {sid} |-> sessions[s]]

\* EnhancedTrainingWindow.__init__
OpenWindow ==
    /\ ~window.open
    /\ step' = "open"
    /\ window' = [ClosedWindow EXCEPT !.open = TRUE]
    /\ UNCHANGED <<current_session, next_sid, key_error>>
    /\ UNCHANGED storeVars
    /\ UNCHANGED <<scoringVars, sweepVars, trainerVars>>
    /\ UNCHANGED auxVars

\* <FocusIn>: start_recording -> start_keystroke_recording
FocusIn ==
    /\ window.open /\ ~window.focused
    /\ step' = "focus_in"
    /\ IF ~window.is_recording
       THEN /\ next_sid <= MaxSessions
            /\ current_session' =
                  [s \in DOMAIN current_session \cup {next_sid} |->
                      IF s = next_sid THEN 0 ELSE current_session[s]]
            /\ next_sid' = next_sid + 1
            /\ window' = [window EXCEPT !.focused = TRUE, !.session_id = next_sid,
                                        !.is_recording = TRUE]
       ELSE /\ window' = [window EXCEPT !.focused = TRUE]
            /\ UNCHANGED <<current_session, next_sid>>
    /\ UNCHANGED key_error
    /\ UNCHANGED storeVars
    /\ UNCHANGED <<scoringVars, sweepVars, trainerVars>>
    /\ UNCHANGED auxVars

\* <FocusOut>: stop_recording
FocusOut ==
    /\ window.open /\ window.focused
    /\ step' = "focus_out"
    /\ window' = [window EXCEPT !.focused = FALSE, !.is_recording = FALSE]
    /\ UNCHANGED <<current_session, next_sid, key_error>>
    /\ UNCHANGED storeVars
    /\ UNCHANGED <<scoringVars, sweepVars, trainerVars>>
    /\ UNCHANGED auxVars

\* <KeyPress>: on_key_press; text is the content of the entry after the key
KeyPress(text) ==
    /\ window.open /\ window.focused
    /\ step' = "key_press"
    /\ IF window.is_recording /\ window.session_id # 0
       THEN IF window.session_id \in DOMAIN current_session
            THEN /\ current_session' = RecordKeyEvent(current_session, window.session_id)
                 /\ UNCHANGED key_error
            ELSE /\ key_error' = TRUE
                 /\ UNCHANGED current_session
       ELSE UNCHANGED <<current_session, key_error>>
    /\ window' = [window EXCEPT !.text = text]
    /\ UNCHANGED next_sid
    /\ UNCHANGED storeVars
    /\ UNCHANGED <<scoringVars, sweepVars, trainerVars>>
    /\ UNCHANGED auxVars

\* <KeyRelease>: on_key_release, then check_input, which calls _reset_input
\* when the text is not a prefix of the phrase
KeyRelease ==
    /\ window.open /\ window.focused
    /\ step' = "key_release"
    /\ LET recording == window.is_recording /\ window.session_id # 0
           missing == recording /\ window.session_id \notin DOMAIN current_session
           recorded == IF recording /\ ~missing
                       THEN RecordKeyEvent(current_session, window.session_id)
                       ELSE current_session
       IN  /\ key_error' = (key_error \/ missing)
           /\ IF window.text = "wrong" /\ ~missing
              THEN IF window.is_recording
                   THEN /\ current_session' = DeleteSession(recorded, window.session_id)
                        /\ window' = [window EXCEPT !.is_recording = FALSE,
                                                    !.session_id = 0, !.text = "empty"]
                   ELSE /\ current_session' = recorded
                        /\ window' = [window EXCEPT !.text = "empty"]
              ELSE /\ current_session' = recorded
                   /\ UNCHANGED window
    /\ UNCHANGED next_sid
    /\ UNCHANGED storeVars
    /\ UNCHANGED <<scoringVars, sweepVars, trainerVars>>
    /\ UNCHANGED auxVars

\* DatabaseManager.save_keystroke_sample as called by finish_recording
SaveKeystrokeSample(count, saved) == IF saved THEN count + 1 ELSE count

\* submit_sample -> finish_recording(session_id, is_training=True);
\* db_ok = FALSE: saving the sample raises and finish_recording catches it
SubmitSample(db_ok) ==
    /\ window.open
    /\ step' = "submit"
    /\ IF window.text # "complete"
       THEN UNCHANGED <<window, current_session, samples, zero_samples>>
       ELSE IF window.session_id # 0 /\ window.is_recording
       THEN IF window.session_id \in DOMAIN current_session
            THEN LET degenerate == Degenerate(current_session[window.session_id])
                 IN  /\ samples' = SaveKeystrokeSample(samples, db_ok /\ ~degenerate)
                     /\ zero_samples' = SaveKeystrokeSample(zero_samples, db_ok /\ degenerate)
                     /\ current_session' = DeleteSession(current_session, window.session_id)
                     /\ window' = [window EXCEPT !.is_recording = FALSE, !.text = "empty"]
            ELSE /\ window' = [window EXCEPT !.is_recording = FALSE, !.text = "empty"]
                 /\ UNCHANGED <<current_session, samples, zero_samples>>
       ELSE UNCHANGED <<window, current_session, samples, zero_samples>>
    /\ UNCHANGED <<next_sid, key_error>>
    /\ UNCHANGED <<is_trained, enhanced_file, basic_file, report_file, models_cache,
                   auth_attempts, analysis_file, trainings, auth, train>>
    /\ UNCHANGED <<scoringVars, sweepVars, trainerVars>>
    /\ UNCHANGED auxVars

\* the cancel button: window.destroy
CloseWindow ==
    /\ window.open
    /\ step' = "close"
    /\ window' = ClosedWindow
    /\ UNCHANGED <<current_session, next_sid, key_error>>
    /\ UNCHANGED storeVars
    /\ UNCHANGED <<scoringVars, sweepVars, trainerVars>>
    /\ UNCHANGED auxVars

NextSession ==
    \/ OpenWindow
    \/ FocusIn
    \/ FocusOut
    \/ \E text \in {"partial", "complete", "wrong"} : KeyPress(text)
    \/ KeyRelease
    \/ \E db_ok \in BOOLEAN : SubmitSample(db_ok)
    \/ CloseWindow
    \/ Restart

SpecSession == Init /\ [][NextSession]_vars

(***************************************************************************)
(* Scoring with a loaded model: KNNAuthenticator.authenticate applied to   *)
(* the models load_model can return                                        *)
(***************************************************************************)
InitLoaded ==
    /\ InitStore({0})
    /\ loaded \in LoadedModels
    /\ score = NoScore
    /\ InitSweep
    /\ InitTrainer
    /\ InitAux

\* ModelManager.authenticate_user_detailed with the loaded model
ScoreFeatures(f, raw, norm) ==
    /\ step' = "score"
    /\ score' = [result |-> authenticate_user_detailed(loaded, f, raw, norm),
                 feature_details |-> feature_details(f)]
    /\ UNCHANGED loaded
    /\ UNCHANGED <<storeVars, sessionVars, sweepVars, trainerVars>>
    /\ UNCHANGED auxVars

NextScoring ==
    \E f \in ScoringInputs, raw \in RawProbs, norm \in NormMins :
        ScoreFeatures(f, raw, norm)

SpecScoring == InitLoaded /\ [][NextScoring]_vars

(***************************************************************************)
(* The evaluators applied to sets of scored attempts                       *)
(***************************************************************************)
\* the evaluators only count the attempts of a list, so the lists are kept
\* in ascending order of score
AttemptLists ==
    {a \in UNION {[1..n -> Scores] : n \in 0..MaxScored} :
        \A i, j \in DOMAIN a : i < j => a[i] <= a[j]}

InitAttempts ==
    /\ InitStore({0})
    /\ InitScoring
    /\ legitimate \in AttemptLists
    /\ impostors \in AttemptLists
    /\ sweep = NoSweep
    /\ InitTrainer
    /\ InitAux

\* BiometricSystemEvaluator.analyze_system
AnalyzeSystem(as_percent, slider) ==
    /\ step' = "analyze"
    /\ \E legit \in {Parsed(legitimate, as_percent)},
          all_impostors \in {Parsed(impostors, as_percent)} :
          IF Len(legit) = 0 \/ Len(all_impostors) = 0
          THEN UNCHANGED sweep
          ELSE \E points \in {[i \in DOMAIN EvaluatorThresholds |->
                                  analyze_point(EvaluatorThresholds[i], legit,
                                                all_impostors)]} :
                  sweep' = SweepResult("evaluator", slider, legit, all_impostors,
                                       points)
    /\ UNCHANGED <<legitimate, impostors>>
    /\ UNCHANGED <<storeVars, sessionVars, scoringVars, trainerVars>>
    /\ UNCHANGED auxVars

\* ControlledTestingWindow.show_results -> calculate_metrics
ShowResults ==
    /\ step' = "show_results"
    /\ IF Len(legitimate) = 0 \/ Len(impostors) = 0
       THEN UNCHANGED sweep
       ELSE \E points \in {[i \in DOMAIN TestingThresholds |->
                               calculate_point(TestingThresholds[i], legitimate,
                                               impostors)]} :
               sweep' = SweepResult("testing", THRESHOLD_ACCURACY, legitimate,
                                    impostors, points)
    /\ UNCHANGED <<legitimate, impostors>>
    /\ UNCHANGED <<storeVars, sessionVars, scoringVars, trainerVars>>
    /\ UNCHANGED auxVars

\* DiplomaStatsWindow.load_security_metrics on the stored attempts
LoadSecurityMetrics ==
    /\ step' = "security_metrics"
    /\ \E auth_rows \in {legitimate \o impostors} :
          IF Len(auth_rows) < MIN_AUTH_ATTEMPTS
          THEN UNCHANGED sweep
          ELSE \E legitimate_attempts \in {HighConfidence(auth_rows)},
                  impostor_attempts \in {LowerConfidence(auth_rows)} :
               \E points \in {[i \in DOMAIN StatsThresholds |->
                                  security_point(StatsThresholds[i],
                                                 legitimate_attempts,
                                                 impostor_attempts)]} :
                  sweep' = SweepResult("stats", THRESHOLD_ACCURACY,
                                       legitimate_attempts, impostor_attempts,
                                       points)
    /\ UNCHANGED <<legitimate, impostors>>
    /\ UNCHANGED <<storeVars, sessionVars, scoringVars, trainerVars>>
    /\ UNCHANGED auxVars

NextSweep ==
    \/ \E as_percent \in BOOLEAN, slider \in SliderPositions :
          AnalyzeSystem(as_percent, slider)
    \/ ShowResults
    \/ LoadSecurityMetrics

SpecSweep == InitAttempts /\ [][NextSweep]_vars

(***************************************************************************)
(* The trainers' use of the data set                                       *)
(***************************************************************************)
DatasetSizes == 4..MaxDataset

\* EnhancedModelTrainer.train_with_validation; test_size = 0.3
EnhancedTrain(n, test) ==
    /\ test \in TestPartitions(n, 30)
    /\ step' = "fit"
    /\ run' = EnhancedRun(n, test)
    /\ UNCHANGED <<storeVars, sessionVars, scoringVars, sweepVars>>
    /\ UNCHANGED auxVars

\* ImprovedModelTrainer.train_user_model; test_size = 0.25
ImprovedTrain(n, test) ==
    /\ test \in TestPartitions(n, 25)
    /\ step' = "fit"
    /\ run' = SplitFirstRun("improved", n, test)
    /\ UNCHANGED <<storeVars, sessionVars, scoringVars, sweepVars>>
    /\ UNCHANGED auxVars

\* SimpleKNNTrainer.train_user_model; test_size = 0.25
SimpleTrain(n, test) ==
    /\ test \in TestPartitions(n, 25)
    /\ step' = "fit"
    /\ run' = SplitFirstRun("simple", n, test)
    /\ UNCHANGED <<storeVars, sessionVars, scoringVars, sweepVars>>
    /\ UNCHANGED auxVars

NextTrainer ==
    \/ \E n \in DatasetSizes, test \in SUBSET (1..MaxDataset) : EnhancedTrain(n, test)
    \/ \E n \in DatasetSizes, test \in SUBSET (1..MaxDataset) : ImprovedTrain(n, test)
    \/ \E n \in DatasetSizes, test \in SUBSET (1..MaxDataset) : SimpleTrain(n, test)

InitDatasets ==
    /\ InitStore({0})
    /\ InitScoring
    /\ InitSweep
    /\ InitTrainer
    /\ InitAux

SpecTrainer == InitDatasets /\ [][NextTrainer]_vars

(***************************************************************************)
(* The hyperparameter searches                                             *)
(***************************************************************************)
\* the sets of candidates that can share the highest accuracy
RECURSIVE SetsUpTo(_, _)
SetsUpTo(size, m) ==
    IF m = 1 THEN {{c} : c \in 1..size}
    ELSE {b \cup {c} : b \in SetsUpTo(size, m - 1), c \in 1..size}

BestSets(size) == SetsUpTo(size, MaxTied)

\* EnhancedModelTrainer.perform_cross_validation
PerformCrossValidation(best) ==
    /\ step' = "search"
    /\ search' = SearchResult("cross_validation", CrossValidationGrid, best)
    /\ UNCHANGED exceptSearchVars

\* EnhancedModelTrainer.hyperparameter_optimization
HyperparameterOptimization(best) ==
    /\ step' = "search"
    /\ search' = SearchResult("enhanced", EnhancedGrid, best)
    /\ UNCHANGED exceptSearchVars

\* ImprovedModelTrainer._optimize_hyperparameters
ImprovedOptimize(best) ==
    /\ step' = "search"
    /\ search' = SearchResult("improved", ImprovedGrid, best)
    /\ UNCHANGED exceptSearchVars

\* SimpleKNNTrainer._optimize_hyperparameters
SimpleOptimize(best) ==
    /\ step' = "search"
    /\ search' = SearchResult("simple", SimpleGrid, best)
    /\ UNCHANGED exceptSearchVars

NextSearch ==
    \/ \E best \in BestSets(GridSize(CrossValidationGrid)) : PerformCrossValidation(best)
    \/ \E best \in BestSets(GridSize(EnhancedGrid)) : HyperparameterOptimization(best)
    \/ \E best \in BestSets(GridSize(ImprovedGrid)) : ImprovedOptimize(best)
    \/ \E best \in BestSets(GridSize(SimpleGrid)) : SimpleOptimize(best)

InitSearches ==
    /\ InitStore({0})
    /\ InitScoring
    /\ InitSweep
    /\ InitTrainer
    /\ InitAux

SpecSearch == InitSearches /\ [][NextSearch]_vars

(***************************************************************************)
(* Saving and loading a trained model                                      *)
(***************************************************************************)
\* _train_basic_model: train, then save_model
TrainAndSaveBasic(n) ==
    /\ n >= MIN_KNN_POSITIVES
    /\ step' = "save"
    /\ memory' = TrainedAuthenticator(n)
    /\ pickle_file' = save_model(TrainedAuthenticator(n))
    /\ restored' = NoObject
    /\ UNCHANGED exceptPersistVars

\* train_with_validation, which ends with _save_training_results
TrainAndSaveEnhanced(n, c, acc) ==
    /\ 2 * n >= MIN_DATASET_SIZE
    /\ step' = "save"
    /\ memory' = TrainedTrainer(n, c, acc)
    /\ pickle_file' = save_training_results(TrainedTrainer(n, c, acc))
    /\ restored' = NoObject
    /\ UNCHANGED exceptPersistVars

\* _get_user_model in a new process: load_trained_model or load_model
LoadSaved ==
    /\ pickle_file # NoObject
    /\ step' = "load"
    /\ restored' = IF pickle_file.type = "enhanced"
                   THEN load_trained_model(pickle_file)
                   ELSE load_model(pickle_file)
    /\ UNCHANGED <<memory, pickle_file>>
    /\ UNCHANGED exceptPersistVars

NextPersist ==
    \/ \E n \in TrainingCounts : TrainAndSaveBasic(n)
    \/ \E n \in TrainingCounts, c \in 1..GridSize(EnhancedGrid), acc \in Accuracies :
          TrainAndSaveEnhanced(n, c, acc)
    \/ LoadSaved

InitPersisted ==
    /\ InitStore({0})
    /\ InitScoring
    /\ InitSweep
    /\ InitTrainer
    /\ InitAux

SpecPersist == InitPersisted /\ [][NextPersist]_vars

(***************************************************************************)
(* The synthesizers applied to sets of genuine vectors                     *)
(***************************************************************************)
PositiveSets == UNION {[1..n -> ValidVectors] : n \in 1..MaxPositives}

\* the sets of features a strategy changes: lo to hi of the six
ChangedSets(lo, hi) ==
    {c \in SUBSET Dims : lo <= Cardinality(c) /\ Cardinality(c) <= hi}

InitPositives ==
    /\ InitStore({0})
    /\ InitScoring
    /\ InitSweep
    /\ InitTrainer
    /\ InitSearch
    /\ InitPersist
    /\ positives \in {Moments(X) : X \in PositiveSets}
    /\ negative = NoNegative
    /\ InitTesting
    /\ InitSelect

Synthesize(synthesizer, strategy, sample) ==
    /\ negative.count < MaxSynthesized
    /\ step' = "synthesize"
    /\ negative' = Negative(synthesizer, strategy, sample, negative.count + 1)
    /\ UNCHANGED positives
    /\ UNCHANGED exceptSynthVars

\* KNNAuthenticator._generate_balanced_negatives
BalancedClose(changed, high, z) ==
    /\ Synthesize("balanced", "close", balanced_close(positives, changed, high, z))

BalancedStyle(fast, high, z) ==
    /\ Synthesize("balanced", "style", balanced_style(positives, fast, high, z))

BalancedFar(high, z) ==
    /\ Synthesize("balanced", "far", balanced_far(positives, high, z))

\* EnhancedModelTrainer._generate_enhanced_negatives
EnhancedOutlier(direction, high) ==
    /\ Synthesize("enhanced", "outlier", enhanced_outlier(positives, direction, high))

EnhancedOpposite(inverted, high) ==
    /\ Synthesize("enhanced", "opposite", enhanced_opposite(positives, inverted, high))

EnhancedNoise(z) ==
    /\ Synthesize("enhanced", "noise", enhanced_noise(positives, z))

\* np.random.choice(len(X_positive), size=2..3, replace=False) needs two
\* training samples
EnhancedBoundary(j, z) ==
    /\ Len(positives.samples) >= 2
    /\ j \in DOMAIN positives.samples
    /\ Synthesize("enhanced", "boundary", enhanced_boundary(positives, j, z))

\* ImprovedModelTrainer._generate_realistic_negatives
RealisticNegative(j, changed, direction, high) ==
    /\ j \in DOMAIN positives.samples
    /\ Synthesize("improved", "realistic",
                  realistic_negative(positives, j, changed, direction, high))

NextSynth ==
    \/ \E changed \in ChangedSets(1, 2), high \in BOOLEAN, z \in NormalDraws :
          BalancedClose(changed, high, z)
    \/ \E fast \in BOOLEAN, high \in BOOLEAN, z \in NormalDraws :
          BalancedStyle(fast, high, z)
    \/ \E high \in BOOLEAN, z \in NormalDraws : BalancedFar(high, z)
    \/ \E direction \in {-1, 1}, high \in BOOLEAN : EnhancedOutlier(direction, high)
    \/ \E inverted \in ChangedSets(2, 3), high \in BOOLEAN :
          EnhancedOpposite(inverted, high)
    \/ \E z \in NormalDraws : EnhancedNoise(z)
    \/ \E j \in 1..MaxPositives, z \in NormalDraws : EnhancedBoundary(j, z)
    \/ \E j \in 1..MaxPositives, changed \in ChangedSets(2, 3),
           direction \in {-1, 1}, high \in BOOLEAN :
          RealisticNegative(j, changed, direction, high)

SpecSynth == InitPositives /\ [][NextSynth]_vars

(***************************************************************************)
(* The events of the controlled-testing window.  Its sessions get ids      *)
(* above those of the training window; a new session gets the least id no  *)
(* open session has.                                                       *)
(***************************************************************************)
TestingSessionIds == (MaxSessions + 1)..(MaxSessions + MaxOpenSessions)

FreshTestingIds == TestingSessionIds \ DOMAIN current_session

TestingOpenSessions == DOMAIN current_session \cap TestingSessionIds

\* ControlledTestingWindow.__init__ and start_testing; the window is modal
OpenTesting ==
    /\ ~testing.open /\ ~window.open
    /\ step' = "testing_open"
    /\ testing' = [NoTesting EXCEPT !.open = TRUE]
    /\ UNCHANGED current_session
    /\ UNCHANGED exceptTestingVars

\* <FocusIn>: start_recording
TestingFocusIn ==
    /\ testing.open /\ ~testing.focused
    /\ step' = "testing_focus_in"
    /\ IF ~testing.is_recording
       THEN /\ Cardinality(TestingOpenSessions) < MaxOpenSessions
            /\ \E sid \in {CHOOSE f \in FreshTestingIds : \A g \in FreshTestingIds : f <= g} :
                  /\ current_session' =
                        [x \in DOMAIN current_session \cup {sid} |->
                            IF x = sid THEN 0 ELSE current_session[x]]
                  /\ testing' = [start_recording(testing, sid) EXCEPT !.focused = TRUE]
       ELSE /\ testing' = [testing EXCEPT !.focused = TRUE]
            /\ UNCHANGED current_session
    /\ UNCHANGED exceptTestingVars

\* <FocusOut>: stop_recording
TestingFocusOut ==
    /\ testing.open /\ testing.focused
    /\ step' = "testing_focus_out"
    /\ testing' = [stop_recording(testing) EXCEPT !.focused = FALSE]
    /\ UNCHANGED current_session
    /\ UNCHANGED exceptTestingVars

\* <KeyPress>: on_key_press; text is the content of the entry after the key
TestingKeyPress(text) ==
    /\ testing.open /\ testing.focused
    /\ step' = "testing_key_press"
    /\ IF testing.is_recording /\ testing.session_id # 0
       THEN IF testing.session_id \in DOMAIN current_session
            THEN /\ current_session' = RecordKeyEvent(current_session, testing.session_id)
                 /\ testing' = [testing EXCEPT !.text = text]
            ELSE /\ testing' = [testing EXCEPT !.text = text, !.session_error = TRUE]
                 /\ UNCHANGED current_session
       ELSE /\ testing' = [testing EXCEPT !.text = text]
            /\ UNCHANGED current_session
    /\ UNCHANGED exceptTestingVars

\* <KeyRelease>: on_key_release, then check_input, which calls _reset_input
\* when the text is not a prefix of the phrase
TestingKeyRelease ==
    /\ testing.open /\ testing.focused
    /\ step' = "testing_key_release"
    /\ LET recording == testing.is_recording /\ testing.session_id # 0
           missing == recording /\ testing.session_id \notin DOMAIN current_session
           recorded == IF recording /\ ~missing
                       THEN RecordKeyEvent(current_session, testing.session_id)
                       ELSE current_session
           w == [testing EXCEPT !.session_error = @ \/ missing]
       IN  IF testing.text = "wrong" /\ ~missing
           THEN /\ testing' = reset_input(w)
                /\ current_session' =
                      IF testing.is_recording /\ testing.session_id \in DOMAIN recorded
                      THEN DeleteSession(recorded, testing.session_id)
                      ELSE recorded
           ELSE /\ testing' = w
                /\ current_session' = recorded
    /\ UNCHANGED exceptTestingVars

\* submit_sample (the button or <Return>) -> finish_recording(session_id,
\* is_training=False), check_phase_completion and, in the last phase,
\* show_results; analysis_ok = FALSE: calculate_metrics raises
TestingSubmit(analysis_ok) ==
    /\ testing.open
    /\ testing.impostor_samples < TARGET_SAMPLES + MaxExtra
    /\ step' = "testing_submit"
    /\ IF testing.text # "complete"
       THEN UNCHANGED <<testing, current_session>>
       ELSE IF testing.session_id # 0 /\ testing.is_recording
       THEN IF testing.session_id \in DOMAIN current_session
            THEN /\ current_session' = DeleteSession(current_session, testing.session_id)
                 /\ IF Degenerate(current_session[testing.session_id])
                    THEN testing' = [stop_recording(testing) EXCEPT !.text = "empty"]
                    ELSE LET stored ==
                                 [stop_recording(testing) EXCEPT
                                     !.text = "empty",
                                     !.samples_collected = @ + 1,
                                     !.legitimate_samples =
                                         IF testing.current_phase = "legitimate"
                                         THEN @ + 1 ELSE @,
                                     !.impostor_samples =
                                         IF testing.current_phase = "legitimate"
                                         THEN @ ELSE @ + 1]
                         IN  testing' =
                                 IF phase_completed(stored.current_phase,
                                                    stored.samples_collected)
                                 THEN AfterNextPhase(stored, analysis_ok)
                                 ELSE stored
            ELSE /\ testing' = [stop_recording(testing) EXCEPT !.text = "empty",
                                                               !.session_error = TRUE]
                 /\ UNCHANGED current_session
       ELSE UNCHANGED <<testing, current_session>>
    /\ UNCHANGED exceptTestingVars

\* skip_phase, confirmed: the button is enabled from the first impostor
\* phase on
TestingSkip(analysis_ok) ==
    /\ testing.open
    /\ testing.current_phase # "legitimate"
    /\ step' = "testing_skip"
    /\ testing' = [AfterNextPhase(testing, analysis_ok) EXCEPT
                       !.skipped = @ \/ testing.current_phase # "completed"]
    /\ UNCHANGED current_session
    /\ UNCHANGED exceptTestingVars

\* the cancel button: window.destroy
CloseTesting ==
    /\ testing.open
    /\ step' = "testing_close"
    /\ testing' = Destroyed(testing)
    /\ UNCHANGED current_session
    /\ UNCHANGED exceptTestingVars

NextTesting ==
    \/ OpenTesting
    \/ TestingFocusIn
    \/ TestingFocusOut
    \/ \E text \in {"partial", "complete", "wrong"} : TestingKeyPress(text)
    \/ TestingKeyRelease
    \/ \E analysis_ok \in BOOLEAN : TestingSubmit(analysis_ok)
    \/ \E analysis_ok \in BOOLEAN : TestingSkip(analysis_ok)
    \/ CloseTesting

\* the program starts with no window open
InitWindows ==
    /\ InitStore({0})
    /\ InitScoring
    /\ InitSweep
    /\ InitTrainer
    /\ InitAux

SpecTesting == InitWindows /\ [][NextTesting]_vars

(***************************************************************************)
(* Both windows on one authenticator.  Each is modal, their sessions have  *)
(* different ids and neither reads the sessions of the other: a run of the *)
(* program records in one of the two windows, and the program is started   *)
(* again with no window open.                                              *)
(***************************************************************************)
OpenTrainingWindow ==
    /\ testing = NoTesting
    /\ OpenWindow

OpenTestingWindow ==
    /\ next_sid = 1
    /\ OpenTesting

\* <FocusIn> of the training window, while the sessions left open are few
TrainingFocusIn ==
    /\ window.is_recording \/ Cardinality(DOMAIN current_session) < MaxOpenSessions
    /\ FocusIn

RestartClosed ==
    /\ ~testing.open
    /\ Restart

NextWindows ==
    \/ OpenTrainingWindow
    \/ TrainingFocusIn
    \/ FocusOut
    \/ \E text \in {"partial", "complete", "wrong"} : KeyPress(text)
    \/ KeyRelease
    \/ \E db_ok \in BOOLEAN : SubmitSample(db_ok)
    \/ CloseWindow
    \/ RestartClosed
    \/ OpenTestingWindow
    \/ TestingFocusIn
    \/ TestingFocusOut
    \/ \E text \in {"partial", "complete", "wrong"} : TestingKeyPress(text)
    \/ TestingKeyRelease
    \/ \E analysis_ok \in BOOLEAN : TestingSubmit(analysis_ok)
    \/ \E analysis_ok \in BOOLEAN : TestingSkip(analysis_ok)
    \/ CloseTesting

SpecWindows == InitWindows /\ [][NextWindows]_vars

(***************************************************************************)
(* KNNAuthenticator.train called with negatives of other users             *)
(***************************************************************************)
InitNegatives ==
    /\ InitStore({0})
    /\ InitScoring
    /\ InitSweep
    /\ InitTrainer
    /\ InitSearch
    /\ InitPersist
    /\ InitSynth
    /\ InitTesting
    /\ \E n \in MIN_KNN_POSITIVES..MaxTrainPositives, surplus \in 0..MaxSurplus,
          pattern \in Patterns :
          selection = [NoSelection EXCEPT
                          !.n = n,
                          !.distances = Distances(NegCount(n) + surplus, pattern)]

SelectNegatives ==
    /\ ~selection.done
    /\ step' = "select"
    /\ selection' = [selection EXCEPT
                         !.selected = SelectedIndices(selection.n, selection.distances),
                         !.done = TRUE]
    /\ UNCHANGED exceptSelectVars

NextSelect == SelectNegatives

SpecSelect == InitNegatives /\ [][NextSelect]_vars

(***************************************************************************)
(* Properties                                                              *)
(***************************************************************************)
VisibleModel == GetUserModel(models_cache, enhanced_file, basic_file)

\* C1: every scored authentication returns a final confidence in [0.05, 0.95]
ScoreBounds ==
    auth.kind = "scored" => (Pct(5) <= auth.confidence /\ auth.confidence <= Pct(95))

\* C2: in every scored authentication, accepted holds exactly when the
\* returned final confidence is at least the returned threshold
DecisionIsThreshold ==
    auth.kind = "scored" => (auth.accepted <=> auth.confidence >= auth.threshold)

\* C3: the returned final confidence equals the returned weights applied to
\* the returned knn, distance and feature sub-scores, clamped to [0.05, 0.95]
AuditConsistent ==
    auth.kind = "scored" =>
        auth.confidence =
            Clip(WeightedSum(auth.weights, auth.knn, auth.distance, auth.feature),
                 Pct(5), Pct(95))

\* C4: an authenticate call made while the user is not marked trained, or
\* while no model is in the cache or on disk, or while the classifier is
\* untrained, returns accepted = false with confidence 0
NoModelNeverAccepted ==
    [][(step' = "auth" /\ (~is_trained \/ VisibleModel = NoModel
                                        \/ ~VisibleModel.is_trained))
         => (~auth'.accepted /\ auth'.confidence = 0)]_vars

NoModelRejectedWitness ==
    step = "auth" /\ is_trained /\ auth.kind = "no_model" /\ ~auth.accepted

\* C5: a train_user_model call with fewer than MIN_TRAINING_SAMPLES stored
\* samples fails with InsufficientData and leaves the model files, the
\* report, the cache and is_trained as they were
InsufficientDataProducesNoModel ==
    [][(step' = "train" /\ samples + zero_samples < MIN_TRAINING_SAMPLES)
         => /\ ~train'.ok
            /\ train'.reason = "InsufficientData"
            /\ UNCHANGED <<enhanced_file, basic_file, report_file, models_cache,
                           is_trained>>]_vars

InsufficientDataWitness ==
    /\ step = "train"
    /\ samples + zero_samples = 10
    /\ train.reason = "InsufficientData"
    /\ VisibleModel = NoModel /\ ~is_trained

\* C6: a train_user_model call that reports failure leaves the model seen
\* by authenticate (the persisted files and the cache) as it was
FailedTrainingKeepsModel ==
    [][(step' = "train" /\ ~train'.ok)
         => UNCHANGED <<enhanced_file, basic_file, models_cache>>]_vars

\* C7: an authenticate call changes no stored state: authentication
\* attempts, files, models, samples and sessions stay as they were
AuthenticateSideEffectFree ==
    [][step' = "auth"
         => UNCHANGED <<auth_attempts, analysis_file, samples, zero_samples,
                        is_trained, enhanced_file, basic_file, report_file,
                        current_session>>]_vars

\* C8: every session still in current_session is the session the open
\* window is using: none survives being superseded or the window's close
SessionsDestroyed ==
    \A s \in DOMAIN current_session : window.open /\ window.session_id = s

\* C9: no capture whose features are all 0 is stored as a training sample
NoDegenerateSampleStored == zero_samples = 0

\* C10: authenticate given the empty feature vector does not score it
DegenerateNotScored ==
    (step = "auth" /\ auth.features = EmptyFeatures) => auth.kind # "scored"

(***************************************************************************)
(* Properties of scoring with a loaded model (SpecScoring)                 *)
(***************************************************************************)
Scored == step = "score" /\ score.result.kind = "scored"
ScoredBasic == Scored /\ loaded.type = "basic"

\* C11: authenticate returns a result for every trained model that was
\* loaded or freshly trained and every feature vector: the call never raises
AuthenticateTotal ==
    (step = "score" /\ loaded.is_trained) => score.result.kind = "scored"

\* C17: a vector shifted by +5 sigma in every dimension is rejected and
\* its feature_score is at or near the floor 0.2
FiveSigmaRejected ==
    (ScoredBasic /\ score.result.features = Deviated(5 * TrainStd))
        => (~score.result.accepted /\ score.result.feature <= Pct(25))

\* the penalties of a scored vector, in 1/10000
PenaltiesOf(details) == [i \in Dims |-> details[i].penalty]

FeatureScoreFromPenalties ==
    score.result.feature =
        Max2(Pct(20), ONE - 100 * SumSeq(PenaltiesOf(score.feature_details)))

PenaltyMonotoneAndCapped ==
    /\ \A i \in Dims : score.feature_details[i].penalty <= 3000
    /\ \A i, j \in Dims :
          score.feature_details[i].z_score <= score.feature_details[j].z_score
              => score.feature_details[i].penalty <= score.feature_details[j].penalty

\* C18 as stated: the penalty is 0 up to 1 sigma, rises on one straight
\* line from 1 sigma to 3 sigma, is non-decreasing and at most 0.3, and
\* feature_score = max(0.2, 1 - mean penalty)
PenaltyOneSlope ==
    ScoredBasic =>
        /\ \A i \in Dims :
              LET d == score.feature_details[i]
              IN  /\ d.z_score <= 100 => d.penalty = 0
                  /\ (100 <= d.z_score /\ d.z_score <= 300)
                        => d.penalty * 200 = Penalty(300) * (d.z_score - 100)
        /\ PenaltyMonotoneAndCapped
        /\ FeatureScoreFromPenalties

\* C18 amended: the penalty is 0 up to 1 sigma, then continuous and
\* piecewise linear: 0.05 per sigma from 1 to 2 sigma, 0.10 per sigma from
\* 2 to 3 sigma, 0.15 per sigma from 3 to 4 sigma, and 0.3 from 4 sigma on;
\* it is non-decreasing and at most 0.3, and
\* feature_score = max(0.2, 1 - mean penalty)
PenaltyPiecewiseLinear ==
    ScoredBasic =>
        /\ \A i \in Dims :
              LET d == score.feature_details[i]
              IN  /\ d.z_score <= 100 => d.penalty = 0
                  /\ (100 <= d.z_score /\ d.z_score <= 200)
                        => d.penalty = 5 * (d.z_score - 100)
                  /\ (200 <= d.z_score /\ d.z_score <= 300)
                        => d.penalty = 500 + 10 * (d.z_score - 200)
                  /\ (300 <= d.z_score /\ d.z_score <= 400)
                        => d.penalty = 1500 + 15 * (d.z_score - 300)
                  /\ d.z_score >= 400 => d.penalty = 3000
        /\ PenaltyMonotoneAndCapped
        /\ FeatureScoreFromPenalties

PenaltyPiecesWitness ==
    /\ ScoredBasic
    /\ score.result.features = Spread
    /\ score.feature_details[3].penalty = 250
    /\ score.feature_details[4].penalty = 1000
    /\ score.feature_details[5].penalty = 2250
    /\ score.feature_details[6].penalty = 3000
    /\ score.result.feature = ONE - 650000

\* the tier of a genuine sample count
Tier(n) == IF n < 15 THEN 1 ELSE IF n < 30 THEN 2 ELSE 3

\* C19: the fusion weights of every scored authentication sum to 1; for the
\* basic model the tier is chosen by the thresholds <15, 15-29, >=30, and a
\* larger count never has a smaller knn weight or a larger distance weight
WeightsNormalised ==
    Scored =>
        LET w == score.result.weights
        IN  /\ w.knn + w.distance + w.features = 100
            /\ loaded.type = "basic" =>
                  \A m \in TrainingCounts :
                     /\ (Tier(m) = Tier(loaded.n)) <=> (Weights(m) = w)
                     /\ m >= loaded.n => /\ Weights(m).knn >= w.knn
                                         /\ Weights(m).distance <= w.distance
                     /\ Weights(m).knn + Weights(m).distance + Weights(m).features = 100

WeightsMiddleTierWitness ==
    /\ ScoredBasic
    /\ loaded.n = 15
    /\ score.result.weights = [knn |-> 35, distance |-> 40, features |-> 25]

(***************************************************************************)
(* Properties of the threshold sweeps (SpecSweep)                          *)
(***************************************************************************)
Swept == sweep.evaluator # "none"

\* the number of attempts whose score is in S
NumberIn(attempts, S) == Cardinality({i \in DOMAIN attempts : attempts[i] \in S})

AtLeast(t) == {s \in Scores : s >= t}
Below(t) == {s \in Scores : s < t}

\* C12: along the points of a sweep, in the order of increasing threshold,
\* FAR never increases and FRR never decreases
ThresholdMonotone ==
    \A i, j \in DOMAIN sweep.points :
        i < j => /\ sweep.points[i].threshold < sweep.points[j].threshold
                 /\ sweep.points[j].far <= sweep.points[i].far
                 /\ sweep.points[j].frr >= sweep.points[i].frr

ThresholdMonotoneWitness ==
    /\ sweep.evaluator = "testing"
    /\ \E i, j \in DOMAIN sweep.points :
          /\ i < j
          /\ sweep.points[j].far < sweep.points[i].far
          /\ sweep.points[j].frr > sweep.points[i].frr

\* C13: when the evaluator has no genuine attempts the FRR of every point
\* is 0, and when it has no impostor attempts the FAR of every point is 0
EmptyClassReportsZero ==
    Swept =>
        \A i \in DOMAIN sweep.points :
            /\ NumberIn(sweep.legit, Scores) = 0 => sweep.points[i].frr = 0
            /\ NumberIn(sweep.impostor, Scores) = 0 => sweep.points[i].far = 0

\* C14: in every point of a sweep of the evaluator and of the testing
\* window, FAR is the fraction of impostor attempts with score >= t, FRR
\* the fraction of genuine attempts with score < t, eer their mean,
\* tp + fn the number of genuine and fp + tn the number of impostor attempts
MetricPointDefinition ==
    sweep.evaluator \in {"evaluator", "testing"} =>
        \A i \in DOMAIN sweep.points :
            LET p == sweep.points[i]
                genuine == NumberIn(sweep.legit, Scores)
                impostor == NumberIn(sweep.impostor, Scores)
            IN  /\ p.far * impostor = ONE * NumberIn(sweep.impostor, AtLeast(p.threshold))
                /\ p.frr * genuine = ONE * NumberIn(sweep.legit, Below(p.threshold))
                /\ 2 * p.eer = p.far + p.frr
                /\ p.tp + p.fn = genuine
                /\ p.fp + p.tn = impostor
                /\ p.tp = NumberIn(sweep.legit, AtLeast(p.threshold))
                /\ p.fp = NumberIn(sweep.impostor, AtLeast(p.threshold))

MetricPointWitness ==
    /\ sweep.evaluator = "evaluator"
    /\ \E i \in DOMAIN sweep.points :
          /\ sweep.points[i].threshold = THRESHOLD_ACCURACY
          /\ sweep.points[i].tp = 1 /\ sweep.points[i].fn = 2
          /\ sweep.points[i].fp = 1 /\ sweep.points[i].tn = 1
          /\ sweep.points[i].far = ONE \div 2
          /\ sweep.points[i].frr = 2 * (ONE \div 3)

\* C15: the optimal point has the smallest eer of the sweep, the current
\* point is the grid point nearest to the operating threshold 0.75, and the
\* rates of the current point are those of accepting a score iff it is
\* >= 0.75
CurrentIsOperatingThreshold ==
    (Swept /\ sweep.operating = THRESHOLD_ACCURACY) =>
        LET genuine == NumberIn(sweep.legit, Scores)
            impostor == NumberIn(sweep.impostor, Scores)
        IN  /\ \A i \in DOMAIN sweep.points :
                  /\ sweep.optimal.eer <= sweep.points[i].eer
                  /\ Abs(sweep.current.threshold - THRESHOLD_ACCURACY)
                        <= Abs(sweep.points[i].threshold - THRESHOLD_ACCURACY)
            /\ impostor > 0 =>
                  sweep.current.far * impostor
                      = ONE * NumberIn(sweep.impostor, AtLeast(THRESHOLD_ACCURACY))
            /\ genuine > 0 =>
                  sweep.current.frr * genuine
                      = ONE * NumberIn(sweep.legit, Below(THRESHOLD_ACCURACY))

\* C16: when every genuine score is at least 0.75 and every impostor score
\* at most 0.20, the optimal point has eer 0 and its threshold lies above
\* every impostor score, not above any genuine score, and in [0.2, 0.8]
SeparatedClassesOptimal ==
    (/\ Swept
     /\ NumberIn(sweep.legit, Scores) > 0
     /\ NumberIn(sweep.impostor, Scores) > 0
     /\ NumberIn(sweep.legit, Below(75)) = 0
     /\ NumberIn(sweep.impostor, AtLeast(21)) = 0)
        => /\ sweep.optimal.eer = 0
           /\ 20 <= sweep.optimal.threshold /\ sweep.optimal.threshold <= 80
           /\ NumberIn(sweep.impostor, AtLeast(sweep.optimal.threshold)) = 0
           /\ NumberIn(sweep.legit, Below(sweep.optimal.threshold)) = 0

SeparatedClassesWitness ==
    /\ sweep.evaluator = "evaluator"
    /\ sweep.legit = <<75, 85, 85>>
    /\ sweep.impostor = <<20, 20, 20>>
    /\ sweep.optimal.eer = 0
    /\ sweep.optimal.threshold = 25

(***************************************************************************)
(* Properties of the trainers (SpecTrainer)                                *)
(***************************************************************************)
\* C20: no sample of the held-out test partition takes part in the
\* cross-validated hyperparameter search
SearchOnTrainingPartition == run.search \cap run.test = {}

(***************************************************************************)
(* Properties of the hyperparameter searches (SpecSearch)                  *)
(***************************************************************************)
\* the candidates that share the highest cross-validated accuracy
TiedBest ==
    {c \in DOMAIN search.scores :
        \A d \in DOMAIN search.scores : search.scores[c] >= search.scores[d]}

\* C21: among the candidates with equal best cross-validated accuracy the
\* selected configuration has the lowest k, in the k-only cross-validation
\* and in every grid search
TieBrokenByLowestK ==
    search.searcher # "none" =>
        \A c \in TiedBest :
            search.best_params.n_neighbors <= search.candidates[c].n_neighbors

(***************************************************************************)
(* Properties of persistence (SpecPersist)                                 *)
(***************************************************************************)
\* C22: loading a saved model yields the object that was saved: the same
\* classifier parameters, support data, normalizer and training report,
\* for the basic and for the enhanced model
RoundTripLossless == restored # NoObject => restored = memory

(***************************************************************************)
(* Properties of the synthesizers (SpecSynth)                              *)
(***************************************************************************)
\* C23: every component of every synthesized negative vector is greater
\* than 0
SynthesizedPositive ==
    negative.synthesizer # "none" => \A i \in Dims : negative.sample[i] > 0

(***************************************************************************)
(* Properties of the model store, continued (Spec)                         *)
(***************************************************************************)
\* C24: an authentication that follows a successful training is scored by
\* the model that training produced
ScoredByLatestModel ==
    [][(step = "train" /\ train.ok /\ step' = "auth" /\ auth'.kind = "scored")
         => auth'.model = trainings]_vars

\* C25: reset_user_model either removes the model, the samples and the
\* is_trained mark together, or leaves all three as they were, so that a
\* user marked is_trained keeps a model that _get_user_model returns
ResetAllOrNothing ==
    [][step' = "reset"
         => \/ /\ VisibleModel' = NoModel
               /\ samples' + zero_samples' = 0
               /\ ~is_trained'
            \/ UNCHANGED <<enhanced_file, basic_file, models_cache, samples,
                           zero_samples, is_trained>>]_vars

\* C26: compare_model_performance leaves the model file, the cache and the
\* training report of the user as they were
CompareReadOnly ==
    [][step' = "compare"
         => UNCHANGED <<enhanced_file, basic_file, models_cache, report_file>>]_vars

(***************************************************************************)
(* Properties of the controlled-testing window (SpecTesting, SpecWindows)  *)
(***************************************************************************)
\* C27: the phase only moves one step forward; the legitimate phase ends
\* by the submit that stores its 10th sample; an impostor phase ends by the
\* submit that stores its 5th sample or by a skip; a run without skips
\* completes with 10 legitimate and 10 impostor samples
PhasesInOrder ==
    [][/\ testing'.current_phase # "legitimate"
            => testing'.legitimate_samples = TARGET_SAMPLES
       /\ (testing.open /\ testing'.current_phase # testing.current_phase)
            => /\ testing'.current_phase = next_phase(testing.current_phase)
               /\ testing.current_phase = "legitimate"
                    => /\ step' = "testing_submit"
                       /\ testing.legitimate_samples = TARGET_SAMPLES - 1
               /\ testing.current_phase # "legitimate"
                    => \/ step' = "testing_skip"
                       \/ /\ step' = "testing_submit"
                          /\ testing.samples_collected = TARGET_SAMPLES \div 2 - 1
               /\ (testing'.current_phase = "completed" /\ ~testing'.skipped)
                    => /\ testing'.legitimate_samples = TARGET_SAMPLES
                       /\ testing'.impostor_samples = TARGET_SAMPLES]_vars

CompletedWithoutSkipWitness ==
    /\ step = "testing_submit"
    /\ testing.current_phase = "completed" /\ ~testing.skipped
    /\ testing.legitimate_samples = TARGET_SAMPLES
    /\ testing.impostor_samples = TARGET_SAMPLES

\* C28: in the completed phase no submit adds a sample
NoSampleAfterCompleted ==
    [][(testing.open /\ testing.current_phase = "completed")
         => /\ testing'.legitimate_samples = testing.legitimate_samples
            /\ testing'.impostor_samples = testing.impostor_samples]_vars

\* C29: while a window is recording, its session_id is an open session of
\* the authenticator, and no key handler has raised "session not found"
RecordingSessionOpen ==
    /\ window.is_recording => window.session_id \in DOMAIN current_session
    /\ (testing.open /\ testing.is_recording)
         => testing.session_id \in DOMAIN current_session
    /\ ~key_error
    /\ ~testing.session_error

RecordingAfterSubmitWitness ==
    /\ step = "testing_key_release"
    /\ testing.open /\ testing.is_recording
    /\ testing.legitimate_samples > 0
    /\ testing.session_id \in DOMAIN current_session
    /\ current_session[testing.session_id] > 0

(***************************************************************************)
(* Properties of the choice of negatives (SpecSelect)                      *)
(***************************************************************************)
\* C30: when more than neg_count negatives are available, exactly
\* neg_count different negatives are selected
NegCountSelected ==
    (selection.done /\ Len(selection.distances) > NegCount(selection.n))
        => /\ Len(selection.selected) = NegCount(selection.n)
           /\ Cardinality(Range(selection.selected)) = Len(selection.selected)

====
